---------------------------- MODULE Spec2Model ----------------------------
(***************************************************************************)
(* Object layer of git.rs: the mail-map codec (src/object/mail_map.rs),    *)
(* the tree codec (src/object/tree.rs) and the object store read/write     *)
(* pipeline (src/object/mod.rs).                                           *)
(*                                                                         *)
(* Byte strings are sequences of byte values (0..255).  The Rust code      *)
(* indexes from 0, so the helpers At and Slice take 0-based offsets.       *)
(* A panic (unwrap on None, failed assertion, slice out of range) is an    *)
(* explicit outcome of every operator that can panic.                      *)
(***************************************************************************)
EXTENDS Integers, Sequences, FiniteSets, TLC

VARIABLES
  given,      \* mail map: the input the current run started from
  wire,       \* mail map: the bytes handed to parse_bytes
  mm,         \* mail map: the MailMap object {map, data}
  mstage,     \* mail map: "map" | "wire" | "parsed" | "panic"
  tree,       \* tree: the Tree object {bytes, entries}
  tcall,      \* tree: the arguments of the last deserialize call
  tstat,      \* tree: "none" | "ok" | "panic"
  dirs,       \* store: the subdirectories of objects/ that exist
  files,      \* store: path (hash) -> file contents, for the files that exist
  wr,         \* store: the write call in progress or last returned
  rd,         \* store: the result of the last read made in this storage state
  returned,   \* store: the hashes returned by the write calls so far
  planted     \* store: the frame put in the directory by another writer

vars == <<given, wire, mm, mstage, tree, tcall, tstat,
          dirs, files, wr, rd, returned, planted>>

mailVars == <<given, wire, mm, mstage>>
treeVars == <<tree, tcall, tstat>>
storeVars == <<dirs, files, wr, rd, returned, planted>>

---------------------------------------------------------------------------
(* Bytes *)

SP == 32
NL == 10
NUL == 0
ZlibMagic == 120

None == -1
Panic == -2

\* raw[i], 0-based
At(raw, i) == raw[i + 1]

\* raw[a..b], 0-based, b exclusive; the caller checks a <= b <= Len(raw)
Slice(raw, a, b) == SubSeq(raw, a + 1, b)

\* Findable::find: the first index >= offset holding target, or None
Find(raw, target, offset) ==
  LET hits == {i \in offset..(Len(raw) - 1) : At(raw, i) = target}
  IN IF hits = {} THEN None ELSE CHOOSE i \in hits : \A j \in hits : i <= j

\* all sequences over S of length at most n
BSeq(S, n) == UNION {[1..k -> S] : k \in 0..n}

---------------------------------------------------------------------------
(* IndexMap<String, String>: a sequence of <<key, value>> with unique keys *)

MapHas(map, k) == \E i \in 1..Len(map) : map[i][1] = k

MapGet(map, k) == map[CHOOSE i \in 1..Len(map) : map[i][1] = k][2]

\* map.entry(key).or_insert(value)
OrInsert(map, k, v) == IF MapHas(map, k) THEN map ELSE Append(map, <<k, v>>)

---------------------------------------------------------------------------
(* mail_map.rs *)

\* str::replace("\n ", "\n"): non-overlapping matches, left to right
RECURSIVE ReplaceNlSp(_)
ReplaceNlSp(s) ==
  IF s = <<>> THEN <<>>
  ELSE IF Len(s) >= 2 /\ s[1] = NL /\ s[2] = SP
    THEN <<NL>> \o ReplaceNlSp(SubSeq(s, 3, Len(s)))
    ELSE <<s[1]>> \o ReplaceNlSp(Tail(s))

\* str::replace('\n', "\n ")
RECURSIVE ReplaceNl(_)
ReplaceNl(s) ==
  IF s = <<>> THEN <<>>
  ELSE IF s[1] = NL
    THEN <<NL, SP>> \o ReplaceNl(Tail(s))
    ELSE <<s[1]>> \o ReplaceNl(Tail(s))

\* the fields loop of map_to_bytes
RECURSIVE FieldsToBytes(_)
FieldsToBytes(map) ==
  IF map = <<>> THEN <<>>
  ELSE (IF Head(map)[1] # <<>>
          THEN Head(map)[1] \o <<SP>> \o ReplaceNl(Head(map)[2]) \o <<NL>>
          ELSE <<>>)
       \o FieldsToBytes(Tail(map))

\* map_to_bytes: map.get("").unwrap() panics when there is no message
MapToBytes(map) ==
  IF MapHas(map, <<>>)
    THEN [panic |-> FALSE, bytes |-> FieldsToBytes(map) \o MapGet(map, <<>>)]
    ELSE [panic |-> TRUE]

\* extract_message
ExtractMessage(bytes, map) == OrInsert(map, <<>>, bytes)

\* the while loop of extract_entry: bytes[end + 1] panics past the end,
\* find(..).unwrap() panics when no newline is left
RECURSIVE ScanEnd(_, _)
ScanEnd(bytes, end) ==
  IF end + 1 >= Len(bytes) THEN Panic
  ELSE IF At(bytes, end + 1) = SP
    THEN LET next == Find(bytes, NL, end + 1)
         IN IF next = None THEN Panic ELSE ScanEnd(bytes, next)
    ELSE end

\* extract_entry
ExtractEntry(bytes, space, map) ==
  LET first == Find(bytes, NL, 1)
      end == IF first = None THEN Panic ELSE ScanEnd(bytes, first)
  IN IF end = Panic \/ space > Len(bytes) \/ space + 1 > end
       THEN [panic |-> TRUE]
       ELSE [panic |-> FALSE,
             map |-> OrInsert(map, Slice(bytes, 0, space),
                              ReplaceNlSp(Slice(bytes, space + 1, end))),
             end |-> end]

\* MailMap::parse_bytes on a MailMap holding map: the object it leaves.
\* Every level of the recursion ends with self.data = map_to_bytes(&self.map).
RECURSIVE ParseBytes(_, _, _)
ParseBytes(map, raw, offset) ==
  LET maybe_space == Find(raw, SP, offset)
      maybe_newln == Find(raw, NL, offset)
      after ==
        IF maybe_newln # None
           /\ maybe_newln <= (IF maybe_space = None THEN maybe_newln ELSE maybe_space)
          THEN IF maybe_newln # offset
                 THEN [panic |-> TRUE]
                 ELSE [panic |-> FALSE,
                       map |-> ExtractMessage(Slice(raw, offset + 1, Len(raw)), map)]
          ELSE IF maybe_space = None /\ maybe_newln = None
            THEN [panic |-> FALSE, map |-> map]
            ELSE LET e == ExtractEntry(Slice(raw, offset, Len(raw)), maybe_space, map)
                 IN IF e.panic THEN [panic |-> TRUE]
                    ELSE LET inner == ParseBytes(e.map, raw, e.end)
                         IN IF inner.panic THEN [panic |-> TRUE]
                            ELSE [panic |-> FALSE, map |-> inner.map]
  IN IF after.panic THEN [panic |-> TRUE]
     ELSE IF MapToBytes(after.map).panic THEN [panic |-> TRUE]
     ELSE [panic |-> FALSE, map |-> after.map, data |-> MapToBytes(after.map).bytes]

\* MailMap::new
MailMapNew == [panic |-> FALSE, map |-> <<>>, data |-> <<>>]

\* MailMap::to_bytes
ToBytes(m) == m.data

---------------------------------------------------------------------------
(* tree.rs *)

HashLen == 20

HexDigit(n) == IF n < 10 THEN 48 + n ELSE 87 + n

\* hex::encode: two lowercase hex digits per byte
RECURSIVE HexEncode(_)
HexEncode(bytes) ==
  IF bytes = <<>> THEN <<>>
  ELSE <<HexDigit(Head(bytes) \div 16), HexDigit(Head(bytes) % 16)>>
       \o HexEncode(Tail(bytes))

\* String::from_utf8 on the byte values the inputs use: ASCII is valid text,
\* a lone byte above 127 is not
IsUtf8(bytes) == \A i \in 1..Len(bytes) : bytes[i] < 128

IsDigit(b) == b >= 48 /\ b <= 57

RECURSIVE DecimalValue(_)
DecimalValue(digits) ==
  IF digits = <<>> THEN 0
  ELSE 10 * DecimalValue(SubSeq(digits, 1, Len(digits) - 1))
       + (digits[Len(digits)] - 48)

\* str::parse::<usize>().unwrap(): digits with an optional leading '+'
ParseUsize(bytes) ==
  LET digits == IF bytes # <<>> /\ bytes[1] = 43 THEN Tail(bytes) ELSE bytes
  IN IF digits = <<>> \/ \E i \in 1..Len(digits) : ~IsDigit(digits[i])
       THEN Panic
       ELSE DecimalValue(digits)

\* Mode::try_from: the modes of the protocol
ModeTryFrom(n) ==
  IF n \in {100644, 100755, 120000, 160000, 40000} THEN n ELSE Panic

\* TreeEntry::from_bytes with the consumed length one byte short
TreeEntryShortLen(raw, offset) ==
  LET space == Find(raw, SP, offset)
      mode == IF IsUtf8(Slice(raw, offset, space))
                THEN ParseUsize(Slice(raw, offset, space))
                ELSE Panic
      null == Find(raw, NUL, space)
  IN IF ~(space # None /\ (space = offset + 5 \/ space = offset + 6))
       THEN [panic |-> TRUE]
     ELSE IF mode = Panic \/ ModeTryFrom(mode) = Panic THEN [panic |-> TRUE]
     ELSE IF null = None THEN [panic |-> TRUE]
     ELSE IF ~IsUtf8(Slice(raw, space + 1, null)) THEN [panic |-> TRUE]
     ELSE IF null + HashLen + 1 > Len(raw) THEN [panic |-> TRUE]
     ELSE [panic |-> FALSE,
           entry |-> [mode |-> ModeTryFrom(mode),
                      path |-> Slice(raw, space + 1, null),
                      hash |-> HexEncode(Slice(raw, null + 1, null + HashLen + 1)),
                      len |-> null + HashLen - offset]]

\* TreeEntry::from_bytes taking the hash bytes that are there, without the
\* range check of the slice
TreeEntryShortHash(raw, offset) ==
  LET space == Find(raw, SP, offset)
      mode == IF IsUtf8(Slice(raw, offset, space))
                THEN ParseUsize(Slice(raw, offset, space))
                ELSE Panic
      null == Find(raw, NUL, space)
      last == IF null + HashLen + 1 > Len(raw) THEN Len(raw) ELSE null + HashLen + 1
  IN IF ~(space # None /\ (space = offset + 5 \/ space = offset + 6))
       THEN [panic |-> TRUE]
     ELSE IF mode = Panic \/ ModeTryFrom(mode) = Panic THEN [panic |-> TRUE]
     ELSE IF null = None THEN [panic |-> TRUE]
     ELSE IF ~IsUtf8(Slice(raw, space + 1, null)) THEN [panic |-> TRUE]
     ELSE [panic |-> FALSE,
           entry |-> [mode |-> ModeTryFrom(mode),
                      path |-> Slice(raw, space + 1, null),
                      hash |-> HexEncode(Slice(raw, null + 1, last)),
                      len |-> null + HashLen + 1 - offset]]

\* TreeEntry::from_bytes
TreeEntryFromBytes(raw, offset) ==
  LET space == Find(raw, SP, offset)
      mode == IF IsUtf8(Slice(raw, offset, space))
                THEN ParseUsize(Slice(raw, offset, space))
                ELSE Panic
      null == Find(raw, NUL, space)
  IN IF ~(space # None /\ (space = offset + 5 \/ space = offset + 6))
       THEN [panic |-> TRUE]
     ELSE IF mode = Panic \/ ModeTryFrom(mode) = Panic THEN [panic |-> TRUE]
     ELSE IF null = None THEN [panic |-> TRUE]
     ELSE IF ~IsUtf8(Slice(raw, space + 1, null)) THEN [panic |-> TRUE]
     ELSE IF null + HashLen + 1 > Len(raw) THEN [panic |-> TRUE]
     ELSE [panic |-> FALSE,
           entry |-> [mode |-> ModeTryFrom(mode),
                      path |-> Slice(raw, space + 1, null),
                      hash |-> HexEncode(Slice(raw, null + 1, null + HashLen + 1)),
                      len |-> null + HashLen + 1 - offset]]

\* the while loop of Tree::deserialize
RECURSIVE DeserializeLoop(_, _, _)
DeserializeLoop(bytes, offset, entries) ==
  IF offset < Len(bytes)
    THEN LET e == TreeEntryFromBytes(bytes, offset)
         IN IF e.panic
              THEN [panic |-> TRUE, bytes |-> bytes, entries |-> entries]
              ELSE DeserializeLoop(bytes, offset + e.entry.len,
                                   Append(entries, e.entry))
    ELSE [panic |-> FALSE, bytes |-> bytes, entries |-> entries]

\* Tree::deserialize on the tree t
Deserialize(t, data) == DeserializeLoop(data, 0, t.entries)

\* Tree::new
TreeNew(data) == Deserialize([bytes |-> <<>>, entries |-> <<>>], data)

\* Tree::serialize
TreeSerialize(t) == t.bytes

\* Tree::entries
Entries(t) == t.entries

---------------------------------------------------------------------------
(* mod.rs: the object store *)

TypeBlob == <<98, 108, 111, 98>>
TypeCommit == <<99, 111, 109, 109, 105, 116>>
TypeTag == <<116, 97, 103>>
TypeTree == <<116, 114, 101, 101>>

\* the typename argument None of read; Some(name) is <<name>>
NoType == <<>>

\* format!("{}", n): the decimal digits of n
RECURSIVE Decimal(_)
Decimal(n) ==
  IF n < 10 THEN <<48 + n>> ELSE Decimal(n \div 10) \o <<48 + (n % 10)>>

\* crypto::sha_1: a deterministic, collision-free digest in lowercase hex
Sha1(data) == HexEncode(data)

\* crypto::compress: a stream that opens with the zlib header byte
Compress(data) == <<ZlibMagic>> \o data

\* crypto::decompress: fails on input that is no such stream
Decompress(file) ==
  IF file # <<>> /\ file[1] = ZlibMagic
    THEN [ok |-> TRUE, bytes |-> Tail(file)]
    ELSE [ok |-> FALSE]

\* the directory segment &hash[0..2] of an object's path
DirOf(hash) == SubSeq(hash, 1, 2)

\* Blob::new: the payload is kept as it is
BlobNew(data) == [panic |-> FALSE, fmt |-> TypeBlob, payload |-> data]

\* Commit::new: the payload goes through the mail map
CommitNew(data) ==
  LET m == ParseBytes(MailMapNew.map, data, 0)
  IN IF m.panic THEN [panic |-> TRUE]
     ELSE [panic |-> FALSE, fmt |-> TypeCommit, payload |-> ToBytes(m)]

\* Tag::new: the payload goes through the mail map
TagNew(data) ==
  LET m == ParseBytes(MailMapNew.map, data, 0)
  IN IF m.panic THEN [panic |-> TRUE]
     ELSE [panic |-> FALSE, fmt |-> TypeTag, payload |-> ToBytes(m)]

\* Tree::new as an object of the store
TreeObjectNew(data) ==
  LET t == TreeNew(data)
  IN IF t.panic THEN [panic |-> TRUE]
     ELSE [panic |-> FALSE, fmt |-> TypeTree, payload |-> TreeSerialize(t)]

\* the dispatch on the type name at the end of read
Dispatch(object_type, payload) ==
  LET made == IF object_type = TypeBlob THEN BlobNew(payload)
              ELSE IF object_type = TypeCommit THEN CommitNew(payload)
              ELSE IF object_type = TypeTag THEN TagNew(payload)
              ELSE TreeObjectNew(payload)
  IN IF object_type \notin {TypeBlob, TypeCommit, TypeTag, TypeTree}
       THEN [kind |-> "err", msg |-> "unsupported type"]
     ELSE IF made.panic THEN [kind |-> "panic"]
     ELSE [kind |-> "ok", obj |-> [fmt |-> made.fmt, payload |-> made.payload]]

\* read with the size check off by one: raw.len() - null_byte
ReadFrameOffByOne(raw, typename) ==
  LET first_space == Find(raw, SP, 0)
      object_type == Slice(raw, 0, first_space)
      null_byte == Find(raw, NUL, 0)
      size_text == Slice(raw, first_space + 1, null_byte)
  IN IF first_space = None \/ ~IsUtf8(object_type) THEN [kind |-> "panic"]
     ELSE IF typename # NoType /\ object_type # typename[1]
       THEN [kind |-> "err", msg |-> "invalid object type"]
     ELSE IF null_byte = None \/ first_space + 1 > null_byte
       THEN [kind |-> "panic"]
     ELSE IF ~IsUtf8(size_text) \/ ParseUsize(size_text) = Panic
       THEN [kind |-> "panic"]
     ELSE IF ParseUsize(size_text) # Len(raw) - null_byte
       THEN [kind |-> "err", msg |-> "size does not match size of raw data"]
     ELSE Dispatch(object_type, Slice(raw, null_byte + 1, Len(raw)))

\* read, from the decompressed bytes on: type name, expected type, declared
\* size, dispatch
ReadFrame(raw, typename) ==
  LET first_space == Find(raw, SP, 0)
      object_type == Slice(raw, 0, first_space)
      null_byte == Find(raw, NUL, 0)
      size_text == Slice(raw, first_space + 1, null_byte)
  IN IF first_space = None \/ ~IsUtf8(object_type) THEN [kind |-> "panic"]
     ELSE IF typename # NoType /\ object_type # typename[1]
       THEN [kind |-> "err", msg |-> "invalid object type"]
     ELSE IF null_byte = None \/ first_space + 1 > null_byte
       THEN [kind |-> "panic"]
     ELSE IF ~IsUtf8(size_text) \/ ParseUsize(size_text) = Panic
       THEN [kind |-> "panic"]
     ELSE IF ParseUsize(size_text) # Len(raw) - null_byte - 1
       THEN [kind |-> "err", msg |-> "size does not match size of raw data"]
     ELSE Dispatch(object_type, Slice(raw, null_byte + 1, Len(raw)))

\* read(repo, hash, typename) on the directory ds and the files fs
ReadObject(ds, fs, hash, typename) ==
  IF DirOf(hash) \notin ds THEN [kind |-> "err", msg |-> "object not found"]
  ELSE IF hash \notin DOMAIN fs THEN [kind |-> "err", msg |-> "object not found"]
  ELSE IF ~Decompress(fs[hash]).ok THEN [kind |-> "err", msg |-> "decompress"]
  ELSE ReadFrame(Decompress(fs[hash]).bytes, typename)

\* the header and the framed data of write
FrameOf(fmt, payload) == fmt \o <<SP>> \o Decimal(Len(payload)) \o <<NUL>> \o payload

---------------------------------------------------------------------------
(* Mail map inputs *)

MaxTextLen == 2

KeyT == <<116>>
KeyAu == <<97, 117>>

\* the header keys of an input, in insertion order
KeyLists == {<<KeyT>>, <<KeyAu>>, <<KeyT, KeyAu>>, <<KeyAu, KeyT>>}

\* header values and messages: text with spaces and newlines
Texts == BSeq({97, SP, NL}, MaxTextLen)

\* values of a plain "key value\n" header line
LineTexts == BSeq({97, SP}, MaxTextLen)

\* values of the second header of an input
SecondTexts == {<<>>, <<97>>, <<97, NL, 97>>}

HeaderLists(first, second) ==
  {<<<<ks[1], v>>>> : ks \in {k \in KeyLists : Len(k) = 1}, v \in first}
  \cup {<<<<ks[1], v>>, <<ks[2], w>>>> :
          ks \in {k \in KeyLists : Len(k) = 2}, v \in first, w \in second}

\* well-formed maps: headers in insertion order, then the message
WellFormedMaps ==
  {hs \o <<<<(<<>>), msg>>>> : hs \in HeaderLists(Texts, SecondTexts), msg \in Texts}

\* payloads "key value\n" ... "\n" message, with the map each one encodes
PayloadMaps ==
  {hs \o <<<<(<<>>), msg>>>> :
     hs \in HeaderLists(LineTexts, SecondTexts \cap LineTexts), msg \in Texts}

RECURSIVE HeaderLines(_)
HeaderLines(map) ==
  IF map = <<>> THEN <<>>
  ELSE (IF Head(map)[1] # <<>>
          THEN Head(map)[1] \o <<SP>> \o Head(map)[2] \o <<NL>>
          ELSE <<>>)
       \o HeaderLines(Tail(map))

PayloadBytes(map) == HeaderLines(map) \o <<NL>> \o MapGet(map, <<>>)

\* the entries of map with a non-empty key, in order
RECURSIVE Headers(_)
Headers(map) ==
  IF map = <<>> THEN <<>>
  ELSE (IF Head(map)[1] # <<>> THEN <<Head(map)>> ELSE <<>>) \o Headers(Tail(map))

---------------------------------------------------------------------------
(* Mail map runs: serialize a map, parse a payload *)

NoTree == [bytes |-> <<>>, entries |-> <<>>]
NoCall == [recs |-> <<>>, part |-> <<>>, keep |-> 0, base |-> 0, n |-> 0]
NoWrite == [pc |-> "idle", n |-> 0]
NoRead == [none |-> TRUE]
NoFrame == [none |-> TRUE]
NoFiles == [h \in {} |-> <<>>]

TreeIdle == tree = NoTree /\ tcall = NoCall /\ tstat = "none"
StoreIdle ==
  /\ dirs = {} /\ files = NoFiles /\ wr = NoWrite
  /\ rd = NoRead /\ returned = {} /\ planted = NoFrame
MailIdle ==
  given = [kind |-> "none"] /\ wire = <<>> /\ mm = MailMapNew /\ mstage = "none"

MailInit ==
  /\ mm = MailMapNew
  /\ \/ \E m \in WellFormedMaps :
          given = [kind |-> "map", map |-> m] /\ wire = <<>> /\ mstage = "map"
     \/ \E m \in PayloadMaps :
          given = [kind |-> "payload", map |-> m]
          /\ wire = PayloadBytes(m) /\ mstage = "wire"
  /\ TreeIdle /\ StoreIdle

\* map_to_bytes(&m.map) on the given map
Serialize ==
  /\ mstage = "map"
  /\ ~MapToBytes(given.map).panic
  /\ wire' = MapToBytes(given.map).bytes
  /\ mstage' = "wire"
  /\ UNCHANGED <<given, mm, treeVars, storeVars>>

\* MailMap::new().parse_bytes(wire, 0)
Parse ==
  /\ mstage = "wire"
  /\ LET r == ParseBytes(mm.map, wire, 0)
     IN IF r.panic
          THEN mstage' = "panic" /\ mm' = mm
          ELSE mstage' = "parsed" /\ mm' = r
  /\ UNCHANGED <<given, wire, treeVars, storeVars>>

MailNext == Serialize \/ Parse

SpecMail == MailInit /\ [][MailNext]_vars

MailDone == mstage \in {"parsed", "panic"}

\* C1: round trip: parsing the bytes map_to_bytes produced for a well-formed
\* map yields the same headers in the same order with the same values, and
\* the same message.
C1_RoundTrip ==
  (given.kind = "map" /\ MailDone) =>
    /\ mstage = "parsed"
    /\ Headers(mm.map) = Headers(given.map)
    /\ MapHas(mm.map, <<>>)
    /\ MapGet(mm.map, <<>>) = MapGet(given.map, <<>>)

\* C2: a payload of N >= 1 header lines, a blank line and a message parses
\* to a map holding every header key in order of appearance with its own
\* value, and the text after the blank line under the empty key.
C2_MultiHeaderParse ==
  (given.kind = "payload" /\ MailDone) =>
    /\ mstage = "parsed"
    /\ Headers(mm.map) = Headers(given.map)
    /\ MapHas(mm.map, <<>>)
    /\ MapGet(mm.map, <<>>) = MapGet(given.map, <<>>)

\* the lines of a text, split at every newline
RECURSIVE Lines(_)
Lines(s) ==
  LET nl == Find(s, NL, 0)
  IN IF nl = None THEN <<s>>
     ELSE <<Slice(s, 0, nl)>> \o Lines(Slice(s, nl + 1, Len(s)))

\* the first line, then every later line behind a newline and one space
RECURSIVE Indented(_)
Indented(ls) ==
  IF Len(ls) = 1 THEN ls[1]
  ELSE ls[1] \o <<NL, SP>> \o Indented(Tail(ls))

HasNewline(v) == \E i \in 1..Len(v) : v[i] = NL

RECURSIVE Emitted(_)
Emitted(hs) ==
  IF hs = <<>> THEN <<>>
  ELSE Head(hs)[1] \o <<SP>> \o Indented(Lines(Head(hs)[2])) \o <<NL>>
       \o Emitted(Tail(hs))

\* C8: every header value with embedded newlines is emitted with each line
\* after the first behind exactly one added space, and parse_bytes of the
\* output recovers the original value.
C8_Continuation ==
  (given.kind = "map" /\ MailDone) =>
    \A i \in 1..Len(Headers(given.map)) :
      LET h == Headers(given.map)[i]
      IN HasNewline(h[2]) =>
           /\ wire = Emitted(Headers(given.map)) \o MapGet(given.map, <<>>)
           /\ mstage = "parsed"
           /\ MapHas(mm.map, h[1])
           /\ MapGet(mm.map, h[1]) = h[2]

---------------------------------------------------------------------------
(* Tree inputs: well-formed records, and buffers cut inside the last one *)

MaxRecords == 2
MaxCalls == 2

\* "100644 a.txt\0" and twenty zero bytes
RecA ==
  [digits |-> <<49, 48, 48, 54, 52, 52>>, mode |-> 100644,
   path |-> <<97, 46, 116, 120, 116>>,
   hash |-> [i \in 1..HashLen |-> NUL]]

\* "40000 a b\0" and a hash that holds a space, a NUL, the text "100644 a",
\* another NUL and bytes above 127
RecB ==
  [digits |-> <<52, 48, 48, 48, 48>>, mode |-> 40000,
   path |-> <<97, SP, 98>>,
   hash |-> <<SP, NUL, 49, 48, 48, 54, 52, 52, SP, 97, NUL>>
            \o [i \in 1..(HashLen - 11) |-> 255]]

Records == {RecA, RecB}

EncodeRec(r) == r.digits \o <<SP>> \o r.path \o <<NUL>> \o r.hash

RECURSIVE EncodeRecs(_)
EncodeRecs(rs) ==
  IF rs = <<>> THEN <<>> ELSE EncodeRec(Head(rs)) \o EncodeRecs(Tail(rs))

\* the entry a record stands for
EntryOf(r) ==
  [mode |-> r.mode, path |-> r.path, hash |-> HexEncode(r.hash),
   len |-> Len(r.digits) + 1 + Len(r.path) + 1 + HashLen]

EntriesOf(rs) == [i \in 1..Len(rs) |-> EntryOf(rs[i])]

\* whole records, then the first keep bytes of one more (keep = 0: none)
TreeInputs ==
  {[recs |-> rs, part |-> <<>>, keep |-> 0] : rs \in BSeq(Records, MaxRecords)}
  \cup
  UNION {{[recs |-> rs, part |-> EncodeRec(r), keep |-> k] :
            k \in 1..(Len(EncodeRec(r)) - 1)} :
         rs \in BSeq(Records, MaxRecords - 1), r \in Records}

InputBytes(in) == EncodeRecs(in.recs) \o SubSeq(in.part, 1, in.keep)

---------------------------------------------------------------------------
(* Tree runs *)

TreeInit ==
  /\ TreeIdle
  /\ MailIdle /\ StoreIdle

\* Tree::new(repo, data)
TreeNewCall(in) ==
  /\ tstat = "none"
  /\ LET r == TreeNew(InputBytes(in))
     IN /\ tree' = [bytes |-> r.bytes, entries |-> r.entries]
        /\ tstat' = IF r.panic THEN "panic" ELSE "ok"
  /\ tcall' = [recs |-> in.recs, part |-> in.part, keep |-> in.keep,
               base |-> 0, n |-> 1]
  /\ UNCHANGED <<mailVars, storeVars>>

\* tree.deserialize(data) on a tree that exists
DeserializeCall(in) ==
  /\ tstat = "ok"
  /\ tcall.n < MaxCalls
  /\ LET r == Deserialize(tree, InputBytes(in))
     IN /\ tree' = [bytes |-> r.bytes, entries |-> r.entries]
        /\ tstat' = IF r.panic THEN "panic" ELSE "ok"
  /\ tcall' = [recs |-> in.recs, part |-> in.part, keep |-> in.keep,
               base |-> Len(tree.entries), n |-> tcall.n + 1]
  /\ UNCHANGED <<mailVars, storeVars>>

TreeNext ==
  \/ \E in \in TreeInputs : TreeNewCall(in)
  \/ \E in \in TreeInputs : DeserializeCall(in)

SpecTree == TreeInit /\ [][TreeNext]_vars

Called == tstat # "none"

\* the entries the last call pushed
Pushed == SubSeq(tree.entries, tcall.base + 1, Len(tree.entries))

RECURSIVE SumLen(_)
SumLen(es) == IF es = <<>> THEN 0 ELSE Head(es).len + SumLen(Tail(es))

C9_RecordDelimiting ==
  (Called /\ tcall.keep = 0) =>
    /\ tstat = "ok"
    /\ Pushed = EntriesOf(tcall.recs)
    /\ \A i \in 1..Len(Pushed) :
         /\ Pushed[i].len
              = Len(tcall.recs[i].digits) + 1 + Len(tcall.recs[i].path) + 1 + 20
         /\ LET start == SumLen(SubSeq(Pushed, 1, i - 1))
            IN Slice(tree.bytes, start, start + Pushed[i].len)
                 = EncodeRec(tcall.recs[i])
    /\ SumLen(Pushed) = Len(tree.bytes)

\* the record whose hash holds spaces and NULs, then the all-zero one
C9_Witness ==
  /\ tstat = "ok"
  /\ tcall.keep = 0
  /\ tcall.recs = <<RecB, RecA>>
  /\ Len(Pushed) = 2

\* C10: after successful deserialize calls on one Tree, entries() is the
\* entry sequence encoded by the bytes serialize() returns.
C10_EntriesMatchBytes ==
  tstat = "ok" =>
    /\ TreeSerialize(tree) = InputBytes(tcall)
    /\ Entries(tree) = EntriesOf(tcall.recs)

---------------------------------------------------------------------------
(* Store runs: one writer, step by step, and reads at any point *)

MaxWrites == 2

\* the objects a client can hold: each is what a constructor returned
Constructed ==
  {BlobNew(<<97, NUL, SP>>),
   CommitNew(<<NL>>), CommitNew(<<116, SP, 97, NL, 97>>),
   TagNew(<<116, SP, 97, NL, 97>>),
   TreeObjectNew(EncodeRec(RecA))}

StoreObjects ==
  {[fmt |-> c.fmt, payload |-> c.payload] : c \in {x \in Constructed : ~x.panic}}

StoreHashes == {Sha1(FrameOf(o.fmt, o.payload)) : o \in StoreObjects}

TypeNames == {TypeBlob, TypeCommit, TypeTag, TypeTree}

\* Option<&str>: None, or Some(name)
ExpectedTypes == {NoType} \cup {<<t>> : t \in TypeNames}

StoreInit ==
  /\ StoreIdle
  /\ MailIdle /\ TreeIdle

Returning(w) == w.pc \in {"idle", "done", "failed"}

\* write without the dry_run test: every call goes on to persist
WriteBeginPersists(o, dry_run) ==
  /\ Returning(wr)
  /\ wr.n < MaxWrites
  /\ LET data == FrameOf(o.fmt, o.payload)
         hash == Sha1(data)
     IN /\ wr' = [pc |-> "repo_file", n |-> wr.n + 1, obj |-> o, dry |-> dry_run,
                  data |-> data, hash |-> hash]
        /\ returned' = returned
  /\ rd' = NoRead
  /\ UNCHANGED <<dirs, files, planted, mailVars, treeVars>>

\* write, lines 103-108: serialize, frame, hash; a dry run returns here
WriteBegin(o, dry_run) ==
  /\ Returning(wr)
  /\ wr.n < MaxWrites
  /\ LET data == FrameOf(o.fmt, o.payload)
         hash == Sha1(data)
     IN IF dry_run
          THEN /\ wr' = [pc |-> "done", n |-> wr.n + 1, obj |-> o, dry |-> TRUE,
                         data |-> data, hash |-> hash,
                         result |-> [kind |-> "ok", hash |-> hash]]
               /\ returned' = returned \cup {[obj |-> o, dry |-> TRUE, hash |-> hash]}
          ELSE /\ wr' = [pc |-> "repo_file", n |-> wr.n + 1, obj |-> o, dry |-> FALSE,
                         data |-> data, hash |-> hash]
               /\ returned' = returned
  /\ rd' = NoRead
  /\ UNCHANGED <<dirs, files, planted, mailVars, treeVars>>

\* write, line 110: repo_file(.., true) makes the subdirectory
WriteRepoFile ==
  /\ wr.pc = "repo_file"
  /\ dirs' = dirs \cup {DirOf(wr.hash)}
  /\ wr' = [wr EXCEPT !.pc = "create"]
  /\ rd' = NoRead
  /\ UNCHANGED <<files, returned, planted, mailVars, treeVars>>

\* write, line 111: File::create makes the file, or empties the one there
WriteCreate ==
  /\ wr.pc = "create"
  /\ files' = [h \in DOMAIN files \cup {wr.hash} |->
                 IF h = wr.hash THEN <<>> ELSE files[h]]
  /\ wr' = [wr EXCEPT !.pc = "compress"]
  /\ rd' = NoRead
  /\ UNCHANGED <<dirs, returned, planted, mailVars, treeVars>>

\* write, line 112: compress succeeds
WriteCompress ==
  /\ wr.pc = "compress"
  /\ wr' = [wr EXCEPT !.pc = "write_all"]
  /\ rd' = NoRead
  /\ UNCHANGED <<dirs, files, returned, planted, mailVars, treeVars>>

\* write, line 112: compress fails and `?` returns the error
WriteCompressFails ==
  /\ wr.pc = "compress"
  /\ wr' = [pc |-> "failed", n |-> wr.n, obj |-> wr.obj, dry |-> wr.dry,
            data |-> wr.data, hash |-> wr.hash,
            result |-> [kind |-> "err", msg |-> "compress"]]
  /\ rd' = NoRead
  /\ UNCHANGED <<dirs, files, returned, planted, mailVars, treeVars>>

\* write, lines 113-115: write_all, then Ok(hash)
WriteAll ==
  /\ wr.pc = "write_all"
  /\ files' = [files EXCEPT ![wr.hash] = Compress(wr.data)]
  /\ wr' = [pc |-> "done", n |-> wr.n, obj |-> wr.obj, dry |-> wr.dry,
            data |-> wr.data, hash |-> wr.hash,
            result |-> [kind |-> "ok", hash |-> wr.hash]]
  /\ returned' = returned \cup {[obj |-> wr.obj, dry |-> FALSE, hash |-> wr.hash]}
  /\ rd' = NoRead
  /\ UNCHANGED <<dirs, planted, mailVars, treeVars>>

\* read(repo, hash, typename), by the writer's thread or another one
ReadCall(hash, typename) ==
  /\ rd' = [hash |-> hash, typename |-> typename,
            result |-> ReadObject(dirs, files, hash, typename)]
  /\ UNCHANGED <<dirs, files, wr, returned, planted, mailVars, treeVars>>

StoreNext ==
  \/ \E o \in StoreObjects, dry_run \in BOOLEAN : WriteBegin(o, dry_run)
  \/ WriteRepoFile
  \/ WriteCreate
  \/ WriteCompress
  \/ WriteCompressFails
  \/ WriteAll
  \/ \E h \in StoreHashes, t \in ExpectedTypes : ReadCall(h, t)

SpecStore == StoreInit /\ [][StoreNext]_vars

\* C3: the file at an object's path either does not exist or holds the
\* complete compressed frame whose hash is that path.
C3_NoPartialObject ==
  \A h \in DOMAIN files :
    /\ Decompress(files[h]).ok
    /\ Sha1(Decompress(files[h]).bytes) = h

\* the length the stored frame declares
DeclaredLength(raw) ==
  ParseUsize(Slice(raw, Find(raw, SP, 0) + 1, Find(raw, NUL, 0)))

\* C4: write(object, false) followed by read(returned_hash, None) returns an
\* object of the same type with the same payload, and the stored frame
\* declares the payload's length.
C4_FrameIntegrity ==
  (wr.pc = "done" /\ ~wr.dry /\ rd # NoRead
   /\ rd.hash = wr.result.hash /\ rd.typename = NoType) =>
    /\ rd.result.kind = "ok"
    /\ rd.result.obj.fmt = wr.obj.fmt
    /\ rd.result.obj.payload = wr.obj.payload
    /\ DeclaredLength(Decompress(files[rd.hash]).bytes) = Len(wr.obj.payload)

\* C7: write(object, true) returns a hash and leaves the object directory
\* as it was, and the hash is the one every write of the same object
\* returned, dry run or not.
C7_DryRun ==
  [][(wr' # wr /\ wr'.dry) =>
       /\ dirs' = dirs
       /\ files' = files
       /\ wr'.pc = "done"
       /\ wr'.result.kind = "ok"
       /\ \A r \in returned' : r.obj = wr'.obj => r.hash = wr'.result.hash]_vars

\* a dry run has returned for an object that a write has already stored
C7_Witness ==
  /\ wr.pc = "done"
  /\ wr.dry
  /\ wr.hash \in DOMAIN files
  /\ \E r \in returned : ~r.dry /\ r.obj = wr.obj /\ r.hash = wr.result.hash

---------------------------------------------------------------------------
(* Reads of a frame another writer stored, its declared length right or not *)

MaxDeclared == 11
MaxPayloadLen == 2

\* the type names of stored frames: the four kinds and an unknown one
FrameTypes == TypeNames \cup {<<120>>}

FramePayloads == BSeq({97, NUL}, MaxPayloadLen)

\* the frame "type declared\0payload"
PlantedFrame(f) == f.fmt \o <<SP>> \o Decimal(f.declared) \o <<NUL>> \o f.payload

FrameInit ==
  /\ \E t \in FrameTypes, d \in 0..MaxDeclared, p \in FramePayloads :
       /\ planted = [fmt |-> t, declared |-> d, payload |-> p]
       /\ dirs = {DirOf(Sha1(PlantedFrame(planted)))}
       /\ files = [h \in {Sha1(PlantedFrame(planted))} |->
                     Compress(PlantedFrame(planted))]
  /\ wr = NoWrite /\ rd = NoRead /\ returned = {}
  /\ MailIdle /\ TreeIdle

FrameNext ==
  \E h \in DOMAIN files, t \in ExpectedTypes \cup {<<planted.fmt>>} : ReadCall(h, t)

SpecFrame == FrameInit /\ [][FrameNext]_vars

SizeError == [kind |-> "err", msg |-> "size does not match size of raw data"]

=============================================================================
